---- MODULE Spec2Model ----
(***************************************************************************)
(* dotbak: the file reconciliation engine (struct Files) over a model of   *)
(* the POSIX filesystem calls it makes.  A path is a sequence of           *)
(* components; the filesystem maps every location under the home root and  *)
(* the storage root to the node stored there.                              *)
(***************************************************************************)
EXTENDS Naturals, Sequences, FiniteSets, TLC

VARIABLES
    fs,     \* the filesystem: absolute path -> node
    call,   \* the last call of the public API: operation, arguments, result, syscalls issued
    dotbak  \* struct Dotbak: the include list of its config, in memory and as saved in the
            \* file, and whether the config file and the repository directory exist

vars == <<fs, call, dotbak>>

----------------------------------------------------------------------------
(* Bounds *)

\* longest batch of paths handed to one call
MaxBatch == 2

\* symbolic links followed while resolving one path before ELOOP
MaxHops == 3

----------------------------------------------------------------------------
(* Paths and nodes *)

home_dir == <<"home">>
file_dir == <<"repo">>
ext_dir == <<"ext">>

\* the relative paths callers name: a top-level entry, an entry nested in it, a sibling
RelPaths == {<<"a">>, <<"a", "b">>, <<"c">>}

\* locations outside both roots: one that exists and one that does not
ext_live == <<"ext", "x">>
ext_dead == <<"ext", "y">>

\* the locations under the two roots, the part of the filesystem that changes
AbsPaths ==
    {home_dir \o p : p \in RelPaths} \cup {file_dir \o p : p \in RelPaths}

None == [k |-> "none", c |-> "", t |-> <<>>]
Dir == [k |-> "dir", c |-> "", t |-> <<>>]
File(c) == [k |-> "file", c |-> c, t |-> <<>>]
Link(t) == [k |-> "link", c |-> "", t |-> t]

Parent(p) == SubSeq(p, 1, Len(p) - 1)
Last(p) == p[Len(p)]

\* Path::starts_with: component-wise prefix
starts_with(p, base) ==
    /\ Len(base) <= Len(p)
    /\ SubSeq(p, 1, Len(base)) = base

\* Path::parent of a joined path
Rest(p, base) == SubSeq(p, Len(base) + 1, Len(p))

\* the node at a location: the roots are directories, ext_live is a file
Node(f, p) ==
    IF p \in DOMAIN f THEN f[p]
    ELSE IF p \in {home_dir, file_dir, ext_dir} THEN Dir
    ELSE IF p = ext_live THEN File("x")
    ELSE None

\* the result of a failed resolution (ENOENT, ENOTDIR or ELOOP on the way)
Bad == <<>>

\* Kernel path resolution: every component but the last is followed through
\* symbolic links and must be a directory; the last one is followed only
\* when followLast (stat) and not otherwise (lstat, rename, unlink, symlink).
RECURSIVE Canon(_, _, _, _)
Canon(f, p, followLast, hops) ==
    IF Len(p) <= 1 THEN p
    ELSE LET par == Canon(f, Parent(p), TRUE, hops) IN
         IF par = Bad \/ Node(f, par).k # "dir" THEN Bad
         ELSE LET q == Append(par, Last(p)) IN
              IF followLast /\ Node(f, q).k = "link"
              THEN IF hops = 0 THEN Bad
                   ELSE Canon(f, Node(f, q).t, TRUE, hops - 1)
              ELSE q

\* lstat: the node at p itself
LStat(f, p) ==
    LET q == Canon(f, p, FALSE, MaxHops) IN
    IF q = Bad THEN None ELSE Node(f, q)

\* stat: the node p resolves to
Stat(f, p) ==
    LET q == Canon(f, p, TRUE, MaxHops) IN
    IF q = Bad THEN None ELSE Node(f, q)

HasChild(f, d) == \E q \in DOMAIN f : Len(q) = Len(d) + 1 /\ starts_with(q, d) /\ f[q].k # "none"

----------------------------------------------------------------------------
(* The filesystem calls of std::fs the engine uses.  Each returns the new  *)
(* filesystem and an io::ErrorKind ("ok" on success).                      *)

Sys(f, err) == [f |-> f, err |-> err]

\* mkdir(2) as create_dir_all uses it: an existing directory is accepted
mkdir_or_is_dir(f, p) ==
    LET q == Canon(f, p, FALSE, MaxHops) IN
    IF q = Bad THEN Sys(f, "NotFound")
    ELSE IF Node(f, q).k = "none" THEN Sys([f EXCEPT ![q] = Dir], "ok")
    ELSE IF Stat(f, p).k = "dir" THEN Sys(f, "ok")
    ELSE Sys(f, "AlreadyExists")

\* a create_dir_all that creates nothing
create_dir_all_nothing(f, p) == Sys(f, "ok")

\* fs::create_dir_all
RECURSIVE create_dir_all(_, _)
create_dir_all(f, p) ==
    IF Len(p) <= 1 THEN Sys(f, "ok")
    ELSE LET up == create_dir_all(f, Parent(p)) IN
         IF up.err # "ok" THEN up ELSE mkdir_or_is_dir(up.f, p)

\* fs::rename (rename(2)): moves the node and everything below it
rename(f, from, to) ==
    LET cf == Canon(f, from, FALSE, MaxHops)
        ct == Canon(f, to, FALSE, MaxHops)
    IN
    IF cf = Bad \/ ct = Bad THEN Sys(f, "NotFound")
    ELSE IF Node(f, cf).k = "none" THEN Sys(f, "NotFound")
    ELSE IF cf = ct THEN Sys(f, "ok")
    ELSE IF Node(f, cf).k = "dir" /\ starts_with(ct, cf) THEN Sys(f, "InvalidInput")
    ELSE IF Node(f, cf).k = "dir" /\ Node(f, ct).k \in {"file", "link"} THEN Sys(f, "NotADirectory")
    ELSE IF Node(f, cf).k = "dir" /\ Node(f, ct).k = "dir" /\ HasChild(f, ct) THEN Sys(f, "DirectoryNotEmpty")
    ELSE IF Node(f, cf).k # "dir" /\ Node(f, ct).k = "dir" THEN Sys(f, "IsADirectory")
    ELSE Sys([q \in DOMAIN f |->
                 IF starts_with(q, ct) THEN Node(f, cf \o Rest(q, ct))
                 ELSE IF starts_with(q, cf) THEN None
                 ELSE f[q]], "ok")

\* fs::remove_file (unlink(2)): removes a file or a symbolic link, never a directory
remove_file(f, p) ==
    LET q == Canon(f, p, FALSE, MaxHops) IN
    IF q = Bad THEN Sys(f, "NotFound")
    ELSE IF Node(f, q).k = "none" THEN Sys(f, "NotFound")
    ELSE IF Node(f, q).k = "dir" THEN Sys(f, "IsADirectory")
    ELSE Sys([f EXCEPT ![q] = None], "ok")

\* unix_fs::symlink (symlink(2)): a new link at `link` whose target text is `original`
symlink(f, original, link) ==
    LET q == Canon(f, link, FALSE, MaxHops) IN
    IF q = Bad THEN Sys(f, "NotFound")
    ELSE IF Node(f, q).k # "none" THEN Sys(f, "AlreadyExists")
    ELSE Sys([f EXCEPT ![q] = Link(original)], "ok")

----------------------------------------------------------------------------
(* The engine: struct Files { home_dir, file_dir } and its helpers.  A run *)
(* of a public operation threads a record through the helpers: the         *)
(* filesystem so far, the Result so far, and the filesystem calls issued.  *)

OkRes == [kind |-> "Ok", file |-> <<>>]
Err(kind, file) == [kind |-> kind, file |-> file]

Start(f) == [f |-> f, res |-> OkRes, trace |-> <<>>]

\* one filesystem call issued for `file`, with the ErrorKind it returned
Step(st, op, file, sys) ==
    [st EXCEPT !.f = sys.f,
               !.trace = Append(st.trace, [op |-> op, file |-> file, err |-> sys.err])]

Fail(st, kind, file) == [st EXCEPT !.res = Err(kind, file)]

\* is_managed_in_home that looks at what the entry resolves to (fs::metadata)
is_managed_in_home_following(f, file) ==
    LET home_path == home_dir \o file
        meta == Stat(f, home_path)
    IN
    IF meta.k = "link" THEN starts_with(meta.t, file_dir) ELSE FALSE

\* Files::is_managed_in_home
is_managed_in_home(f, file) ==
    LET home_path == home_dir \o file
        meta == LStat(f, home_path)
    IN
    IF meta.k = "link" THEN starts_with(meta.t, file_dir) ELSE FALSE

\* Files::is_managed_in_repo
is_managed_in_repo(f, file) ==
    LET repo_path == file_dir \o file IN
    Stat(f, repo_path).k # "none"

\* delete_files
RECURSIVE delete_files(_, _, _)
delete_files(st, files, dir) ==
    IF files = <<>> THEN st
    ELSE LET file == Head(files)
             path == dir \o file
             del == Step(st, "remove_file", file, remove_file(st.f, path))
         IN
         IF Last(del.trace).err # "ok" THEN Fail(del, "Delete", file)
         ELSE delete_files(del, Tail(files), dir)

\* symlink_files that goes on with the rest of the batch after a fatal failure
RECURSIVE symlink_files_skipping(_, _, _, _)
symlink_files_skipping(st, files, from, to) ==
    IF files = <<>> THEN st
    ELSE LET file == Head(files)
             from_path == from \o file
             to_path == to \o file
             first == Step(st, "symlink", file, symlink(st.f, from_path, to_path))
         IN
         IF Last(first.trace).err = "ok" THEN symlink_files_skipping(first, Tail(files), from, to)
         ELSE IF Last(first.trace).err = "AlreadyExists"
         THEN LET del == Step(first, "remove_file", file, remove_file(first.f, to_path)) IN
              IF Last(del.trace).err # "ok"
              THEN symlink_files_skipping(Fail(del, "Delete", file), Tail(files), from, to)
              ELSE LET again == Step(del, "symlink", file, symlink(del.f, from_path, to_path)) IN
                   IF Last(again.trace).err # "ok"
                   THEN symlink_files_skipping(Fail(again, "Symlink", file), Tail(files), from, to)
                   ELSE symlink_files_skipping(again, Tail(files), from, to)
         ELSE symlink_files_skipping(Fail(first, "Symlink", file), Tail(files), from, to)

\* symlink_files
RECURSIVE symlink_files(_, _, _, _)
symlink_files(st, files, from, to) ==
    IF files = <<>> THEN st
    ELSE LET file == Head(files)
             from_path == from \o file
             to_path == to \o file
             first == Step(st, "symlink", file, symlink(st.f, from_path, to_path))
         IN
         IF Last(first.trace).err = "ok" THEN symlink_files(first, Tail(files), from, to)
         ELSE IF Last(first.trace).err = "AlreadyExists"
         THEN LET del == Step(first, "remove_file", file, remove_file(first.f, to_path)) IN
              IF Last(del.trace).err # "ok" THEN Fail(del, "Delete", file)
              ELSE LET again == Step(del, "symlink", file, symlink(del.f, from_path, to_path)) IN
                   IF Last(again.trace).err # "ok" THEN Fail(again, "Symlink", file)
                   ELSE symlink_files(again, Tail(files), from, to)
         ELSE Fail(first, "Symlink", file)

\* move_files that goes on with the rest of the batch after a failed path
RECURSIVE move_files_skipping(_, _, _, _)
move_files_skipping(st, files, from, to) ==
    IF files = <<>> THEN st
    ELSE LET file == Head(files)
             from_path == from \o file
             to_path == to \o file
             mk == Step(st, "create_dir_all", file, create_dir_all(st.f, Parent(to_path)))
         IN
         IF Last(mk.trace).err # "ok"
         THEN move_files_skipping(Fail(mk, "Create", file), Tail(files), from, to)
         ELSE LET mv == Step(mk, "rename", file, rename(mk.f, from_path, to_path)) IN
              IF Last(mv.trace).err # "ok"
              THEN move_files_skipping(Fail(mv, "Move", file), Tail(files), from, to)
              ELSE move_files_skipping(mv, Tail(files), from, to)

\* move_files
RECURSIVE move_files(_, _, _, _)
move_files(st, files, from, to) ==
    IF files = <<>> THEN st
    ELSE LET file == Head(files)
             from_path == from \o file
             to_path == to \o file
             mk == Step(st, "create_dir_all", file, create_dir_all(st.f, Parent(to_path)))
         IN
         IF Last(mk.trace).err # "ok" THEN Fail(mk, "Create", file)
         ELSE LET mv == Step(mk, "rename", file, rename(mk.f, from_path, to_path)) IN
              IF Last(mv.trace).err # "ok" THEN Fail(mv, "Move", file)
              ELSE move_files(mv, Tail(files), from, to)

\* the filter of symlink_back_home, collected before any link is made
LinkFilter(f, file) == ~is_managed_in_home(f, file) /\ is_managed_in_repo(f, file)

\* Files::symlink_back_home
symlink_back_home(st, files) ==
    LET kept == SelectSeq(files, LAMBDA file : LinkFilter(st.f, file)) IN
    symlink_files(st, kept, file_dir, home_dir)

\* the filter the design text gives: only the home side is looked at
MoveFilter_home_only(f, file) == ~is_managed_in_home(f, file)

\* the filter of move_and_symlink, collected before any move is made
MoveFilter(f, file) == ~is_managed_in_home(f, file) /\ ~is_managed_in_repo(f, file)

\* move_and_symlink that forgets to link the moved files back
move_and_symlink_no_link(st, files) ==
    LET kept == SelectSeq(files, LAMBDA file : MoveFilter(st.f, file)) IN
    move_files(st, kept, home_dir, file_dir)

\* each path moved and linked before the next one is looked at
RECURSIVE move_and_link_each(_, _)
move_and_link_each(st, files) ==
    IF files = <<>> THEN st
    ELSE LET moved == move_files(st, <<Head(files)>>, home_dir, file_dir) IN
         IF moved.res.kind # "Ok" THEN moved
         ELSE LET linked == symlink_files(moved, <<Head(files)>>, file_dir, home_dir) IN
              IF linked.res.kind # "Ok" THEN linked
              ELSE move_and_link_each(linked, Tail(files))

\* move_and_symlink with its two phases interleaved path by path
move_and_symlink_interleaved(st, files) ==
    move_and_link_each(st, SelectSeq(files, LAMBDA file : MoveFilter(st.f, file)))

\* Files::move_and_symlink
move_and_symlink(st, files) ==
    LET kept == SelectSeq(files, LAMBDA file : MoveFilter(st.f, file))
        moved == move_files(st, kept, home_dir, file_dir)
    IN
    IF moved.res.kind # "Ok" THEN moved ELSE symlink_back_home(moved, kept)

\* remove_and_restore with its two steps in the other order
remove_and_restore_move_first(st, files) ==
    LET moved == move_files(st, files, file_dir, home_dir) IN
    IF moved.res.kind # "Ok" THEN moved
    ELSE delete_files(moved, files, home_dir)

\* Files::remove_and_restore
remove_and_restore(st, files) ==
    LET deleted == delete_files(st, files, home_dir) IN
    IF deleted.res.kind # "Ok" THEN deleted
    ELSE move_files(deleted, files, file_dir, home_dir)

----------------------------------------------------------------------------
(* The state machine: a filesystem a user may have, and the calls of the   *)
(* public API of Files, each applied as a whole.                           *)

A == <<"a">>
AB == <<"a", "b">>
C == <<"c">>

\* what may be found under the home root before a call
HomeA == {None, File("h"), Dir, Link(file_dir \o A), Link(ext_live), Link(ext_dead)}
HomeAB == {None, File("h"), Link(file_dir \o AB)}
HomeC == {None, File("h"), Link(file_dir \o C)}

\* what may be found under the storage root before a call
RepoA == {None, File("r"), Dir}
RepoAB == {None, File("r")}
RepoC == {None, File("r")}

Empty == [q \in AbsPaths |-> None]

\* an entry exists only inside a directory
WellFormed(f) ==
    \A q \in DOMAIN f : f[q].k # "none" => Node(f, Parent(q)).k = "dir"

\* the storage tree mirrors the home tree: storage holds no regular file at a
\* path that is a directory under the home root
Mirrored(f) ==
    \A P \in RelPaths :
        ~(f[home_dir \o P].k = "dir" /\ f[file_dir \o P].k = "file")

InitFS ==
    {f \in {[Empty EXCEPT ![home_dir \o A] = ha, ![home_dir \o AB] = hab, ![home_dir \o C] = hc,
                          ![file_dir \o A] = ra, ![file_dir \o AB] = rab, ![file_dir \o C] = rc] :
                ha \in HomeA, hab \in HomeAB, hc \in HomeC,
                ra \in RepoA, rab \in RepoAB, rc \in RepoC} : WellFormed(f) /\ Mirrored(f)}

Distinct(s) == \A i, j \in 1..Len(s) : i # j => s[i] # s[j]

Batches == {s \in UNION {[1..n -> RelPaths] : n \in 1..MaxBatch} : Distinct(s)}

\* Config::default in a freshly initialised Dotbak: nothing included, nothing
\* saved yet; the config file and the repository directory have been created
NoConfig == [include |-> <<>>, saved |-> <<>>, config_file |-> TRUE, repo |-> TRUE]

NoPrev == [op |-> "none", res |-> OkRes, pre |-> Empty]

NoCall == [op |-> "none", files |-> <<>>, res |-> OkRes, trace |-> <<>>, pre |-> Empty, prev |-> NoPrev]

\* the pairs of consecutive calls on the same paths whose first call is kept:
\* a repeated call, and a restore after a store
Paired ==
    { <<"move_and_symlink", "move_and_symlink">>,
      <<"move_and_symlink", "remove_and_restore">>,
      <<"remove_and_restore", "remove_and_restore">> }

\* the record of a call: what was asked, what came back, the filesystem it
\* started from, and the call before it when the two make a kept pair
Record(op, files, st) ==
    [op |-> op, files |-> files, res |-> st.res, trace |-> st.trace, pre |-> fs,
     prev |-> IF call.files = files /\ <<call.op, op>> \in Paired
              THEN [op |-> call.op, res |-> call.res, pre |-> call.pre]
              ELSE NoPrev]

Init ==
    /\ fs \in InitFS
    /\ call = NoCall
    /\ dotbak = NoConfig

MoveAndSymlink(files) ==
    LET st == move_and_symlink(Start(fs), files) IN
    /\ fs' = st.f
    /\ call' = Record("move_and_symlink", files, st)
    /\ UNCHANGED dotbak

SymlinkBackHome(files) ==
    LET st == symlink_back_home(Start(fs), files) IN
    /\ fs' = st.f
    /\ call' = Record("symlink_back_home", files, st)
    /\ UNCHANGED dotbak

RemoveAndRestore(files) ==
    LET st == remove_and_restore(Start(fs), files) IN
    /\ fs' = st.f
    /\ call' = Record("remove_and_restore", files, st)
    /\ UNCHANGED dotbak

Next ==
    \/ \E files \in Batches : MoveAndSymlink(files)
    \/ \E files \in Batches : SymlinkBackHome(files)
    \/ \E files \in Batches : RemoveAndRestore(files)

Spec == Init /\ [][Next]_vars

\* the filesystems without a symbolic link
PlainFS == {f \in InitFS : \A q \in AbsPaths : f[q].k # "link"}

PlainInit ==
    /\ fs \in PlainFS
    /\ call = NoCall
    /\ dotbak = NoConfig

\* the calls of Files from a filesystem that holds no symbolic link yet
PlainSpec == PlainInit /\ [][Next]_vars

TypeOK ==
    /\ DOMAIN fs = AbsPaths
    /\ WellFormed(fs)
    /\ Mirrored(fs)

----------------------------------------------------------------------------
(* The classifier asked on its own: one query of is_managed_in_home or of  *)
(* is_managed_in_repo on a filesystem a user may have.  Neither issues a   *)
(* call that changes the filesystem.                                       *)

\* the filesystems queried: those of InitFS, and those with home_root/c a
\* link to another entry of the storage root
QueryFS ==
    InitFS \cup {[f EXCEPT ![home_dir \o C] = Link(file_dir \o A)] : f \in InitFS}

\* the record of a query: the answer is the bool returned
Answer(op, file, bool) ==
    [op |-> op, files |-> <<file>>, res |-> bool, trace |-> <<>>, pre |-> fs, prev |-> NoPrev]

QueryInit ==
    /\ fs \in QueryFS
    /\ call = NoCall
    /\ dotbak = NoConfig

IsManagedInHome(file) ==
    /\ fs' = fs
    /\ call' = Answer("is_managed_in_home", file, is_managed_in_home(fs, file))
    /\ UNCHANGED dotbak

IsManagedInRepo(file) ==
    /\ fs' = fs
    /\ call' = Answer("is_managed_in_repo", file, is_managed_in_repo(fs, file))
    /\ UNCHANGED dotbak

QueryNext ==
    \/ \E file \in RelPaths : IsManagedInHome(file)
    \/ \E file \in RelPaths : IsManagedInRepo(file)

QuerySpec == QueryInit /\ [][QueryNext]_vars

----------------------------------------------------------------------------
(* struct Dotbak: add extends the include list, saves the configuration,   *)
(* synchronises the files named and commits; remove takes the paths off    *)
(* the list, saves, restores and commits; deinit restores every included   *)
(* path, then deletes the config file and the repository.  Writing the     *)
(* configuration and committing are taken to succeed.                      *)

\* Dotbak::sync_files that only links
sync_files_link_only(st, files) == symlink_back_home(st, files)

\* the second half of Dotbak::sync_files: the links back home, made only when
\* the move went through (the `?` after move_and_symlink)
then_symlink_back_home(moved, files) ==
    IF moved.res.kind # "Ok" THEN moved ELSE symlink_back_home(moved, files)

\* Dotbak::sync_files
sync_files(st, files) == then_symlink_back_home(move_and_symlink(st, files), files)

\* the filesystems Dotbak starts from: nothing under the home root is a link yet
DotbakFS == {f \in InitFS : \A P \in RelPaths : f[home_dir \o P].k # "link"}

DotbakInit ==
    /\ fs \in DotbakFS
    /\ call = NoCall
    /\ dotbak = NoConfig

\* a Dotbak is loaded from its config file and its repository directory
Loaded == dotbak.config_file /\ dotbak.repo

\* Config::save_config after the include list became `include`
save_config(d, include) == [d EXCEPT !.include = include, !.saved = include]

\* a record with a commit whatever the engine returned
DotbakRecord_always_commits(op, files, st, message) ==
    [op |-> op, files |-> files, res |-> st.res, trace |-> st.trace,
     pre |-> fs, prev |-> NoPrev, before |-> dotbak,
     commit |-> <<message, files>>]

\* the record of a call of Dotbak: as for the engine, and the configuration
\* before the call and the commit made (none: <<>>)
DotbakRecord(op, files, st, message) ==
    [op |-> op, files |-> files, res |-> st.res, trace |-> st.trace,
     pre |-> fs, prev |-> NoPrev, before |-> dotbak,
     commit |-> IF st.res.kind = "Ok" THEN <<message, files>> ELSE <<>>]

\* the rest of Dotbak::add once sync_files has returned st: the state it
\* leaves and the commit it makes
Added(files, st) ==
    /\ dotbak' = save_config(dotbak, dotbak.include \o files)
    /\ fs' = st.f
    /\ call' = DotbakRecord("add", files, st, "Add files")

\* Dotbak::add, for paths that are not in the include list yet
Add(files) ==
    /\ Loaded
    /\ \A i \in 1..Len(files) : \A j \in 1..Len(dotbak.include) : files[i] # dotbak.include[j]
    /\ Added(files, sync_files(Start(fs), files))

\* Vec::retain in Dotbak::remove: the include list without the paths of files
retain(include, files) ==
    SelectSeq(include, LAMBDA p : \A i \in 1..Len(files) : files[i] # p)

\* the rest of Dotbak::remove once remove_and_restore has returned st
Removed(files, st) ==
    /\ dotbak' = save_config(dotbak, retain(dotbak.include, files))
    /\ fs' = st.f
    /\ call' = DotbakRecord("remove", files, st, "Remove files")

\* Dotbak::remove
Remove(files) ==
    /\ Loaded
    /\ Removed(files, remove_and_restore(Start(fs), files))

\* fs::remove_dir_all on the storage root: everything below it goes
remove_dir_all(f, root) == [q \in DOMAIN f |-> IF starts_with(q, root) THEN None ELSE f[q]]

\* a deinit that deletes the config file and the repository whatever the
\* restore returned
deinit_regardless(d, st) ==
    [f |-> remove_dir_all(st.f, file_dir), res |-> st.res,
     trace |-> st.trace \o << [op |-> "delete_config", file |-> <<>>, err |-> "ok"],
                              [op |-> "remove_dir_all", file |-> <<>>, err |-> "ok"] >>,
     conf |-> [d EXCEPT !.config_file = FALSE, !.repo = FALSE]]

\* Dotbak::deinit once remove_and_restore has returned st: Config::delete_config
\* and Repository::delete follow only when the restore went through
deinit(d, st) ==
    IF st.res.kind # "Ok" THEN [f |-> st.f, res |-> st.res, trace |-> st.trace, conf |-> d]
    ELSE IF ~d.config_file
    THEN [f |-> st.f, res |-> Err("ConfigNotFound", <<>>), trace |-> st.trace, conf |-> d]
    ELSE IF ~d.repo
    THEN [f |-> st.f, res |-> Err("Delete", <<>>),
          trace |-> Append(st.trace, [op |-> "delete_config", file |-> <<>>, err |-> "ok"]),
          conf |-> [d EXCEPT !.config_file = FALSE]]
    ELSE [f |-> remove_dir_all(st.f, file_dir), res |-> OkRes,
          trace |-> st.trace \o << [op |-> "delete_config", file |-> <<>>, err |-> "ok"],
                                   [op |-> "remove_dir_all", file |-> <<>>, err |-> "ok"] >>,
          conf |-> [d EXCEPT !.config_file = FALSE, !.repo = FALSE]]

\* the state a deinit leaves
Deinited(files, end) ==
    /\ dotbak' = end.conf
    /\ fs' = end.f
    /\ call' = [op |-> "deinit", files |-> files, res |-> end.res, trace |-> end.trace,
                pre |-> fs, prev |-> NoPrev, before |-> dotbak, commit |-> <<>>]

\* Dotbak::deinit
Deinit ==
    /\ Loaded
    /\ Deinited(dotbak.include, deinit(dotbak, remove_and_restore(Start(fs), dotbak.include)))

DotbakNext ==
    \/ \E files \in Batches : Add(files)
    \/ \E files \in Batches : Remove(files)
    \/ Deinit

DotbakSpec == DotbakInit /\ [][DotbakNext]_vars

----------------------------------------------------------------------------
(* Dotbak::sync_files on its own, as sync_all_files, push and pull run it: *)
(* on any filesystem a user may have, for any batch.                       *)

\* the state a sync_files that returned st leaves
Synced(files, st) ==
    /\ fs' = st.f
    /\ call' = Record("sync_files", files, st)
    /\ UNCHANGED dotbak

\* Dotbak::sync_files
SyncFiles(files) == Synced(files, sync_files(Start(fs), files))

SyncNext == \E files \in Batches : SyncFiles(files)

SyncSpec == Init /\ [][SyncNext]_vars

----------------------------------------------------------------------------
(* The directory walker: walk_dir and get_globsets.  A relative path is a  *)
(* sequence of names ("." is the empty sequence); a glob is a sequence of  *)
(* components, each a name, "*" or "**".                                   *)

\* an absolute path starts at one of the roots
IsAbs(p) == p # <<>> /\ p[1] \in {"home", "repo", "ext"}

\* Path::join: an absolute second path replaces the first
Join(base, p) == IF IsAbs(p) THEN p ELSE base \o p

\* a directory whose entries cannot be read
Locked == [k |-> "dir", c |-> "locked", t |-> <<>>]

\* Glob::new(..) and is_match with the default options: the whole path must
\* match; "*" spans one or more components (it is not stopped by a
\* separator), "**" followed by a separator spans zero or more directories
RECURSIVE glob_match(_, _)
glob_match(pat, path) ==
    IF pat = <<>> THEN path = <<>>
    ELSE IF Head(pat) = "**"
    THEN \E k \in 0..Len(path) : glob_match(Tail(pat), SubSeq(path, k + 1, Len(path)))
    ELSE IF Head(pat) = "*"
    THEN \E k \in 1..Len(path) : glob_match(Tail(pat), SubSeq(path, k + 1, Len(path)))
    ELSE path # <<>> /\ Head(path) = Head(pat) /\ glob_match(Tail(pat), Tail(path))

\* GlobSet::is_match: some glob of the set matches
is_match(globset, path) == \E i \in 1..Len(globset) : glob_match(globset[i], path)

\* the glob get_globsets adds for one pattern: a pattern that names a
\* directory under parent_dir gets "**/*" joined to it
compile(f, parent_dir, pattern) ==
    IF Stat(f, Join(parent_dir, pattern)).k = "dir"
    THEN pattern \o <<"**", "*">>
    ELSE pattern

\* get_globsets: (include, exclude)
get_globsets(f, parent_dir, config) ==
    [include |-> [i \in 1..Len(config.include) |-> compile(f, parent_dir, config.include[i])],
     exclude |-> [i \in 1..Len(config.exclude) |-> compile(f, parent_dir, config.exclude[i])]]

\* the names found in the trees that are walked, in the order a directory
\* is read: a directory comes before its entries
WalkPaths ==
    << <<"bar">>, <<"baz">>, <<"foo">>,
       <<"qux">>, <<"qux", "bar">>, <<"qux", "bar", "bar">>, <<"qux", "bar", "baz">>,
       <<"qux", "bar", "baz", "foo">>, <<"qux", "bar", "foo">>,
       <<"qux", "baz">>, <<"qux", "baz", "bar">>, <<"qux", "baz", "foo">>, <<"qux", "foo">>,
       <<"spam">>, <<"spam", "bar">>, <<"spam", "baz">>, <<"spam", "baz", "bar">>,
       <<"spam", "baz", "foo">>, <<"spam", "foo">> >>

\* every location a walk can visit, in reading order
Locations ==
    <<home_dir>> \o [i \in 1..Len(WalkPaths) |-> home_dir \o WalkPaths[i]] \o <<ext_dir, ext_live>>

\* WalkDir::new(base): the entries it yields, base first; links are not followed
Entries(f, base) ==
    SelectSeq(Locations, LAMBDA q : starts_with(q, base) /\ LStat(f, q).k # "none")

WalkOk(paths) == [kind |-> "Ok", paths |-> paths]
WalkPanic == [kind |-> "Panic", paths |-> <<>>]

\* walk_dir that forgets the exclude set
walk_dir_include_only(f, cwd, dir, parent_dir, config) ==
    LET globs == get_globsets(f, parent_dir, config)
        base == Join(cwd, dir)
        found == Entries(f, base)
        files == SelectSeq(found, LAMBDA q : Node(f, q).k # "dir")
        rel == [i \in 1..Len(files) |-> Rest(files[i], base)]
    IN
    IF Stat(f, Join(parent_dir, dir)).k = "file"
    THEN IF is_match(globs.include, dir)
         THEN WalkOk(<<dir>>)
         ELSE WalkOk(<<>>)
    ELSE IF found = <<>> \/ \E i \in 1..Len(found) : Node(f, found[i]) = Locked
    THEN WalkPanic
    ELSE WalkOk(SelectSeq(rel, LAMBDA e : is_match(globs.include, e)))

\* walk_dir without its first branch: a start that is a file is walked like a directory
walk_dir_no_file_case(f, cwd, dir, parent_dir, config) ==
    LET globs == get_globsets(f, parent_dir, config)
        base == Join(cwd, dir)
        found == Entries(f, base)
        files == SelectSeq(found, LAMBDA q : Node(f, q).k # "dir")
        rel == [i \in 1..Len(files) |-> Rest(files[i], base)]
    IN
    IF found = <<>> \/ \E i \in 1..Len(found) : Node(f, found[i]) = Locked
    THEN WalkPanic
    ELSE WalkOk(SelectSeq(rel, LAMBDA e :
                    is_match(globs.include, e) /\ ~is_match(globs.exclude, e)))

\* walk_dir(dir, parent_dir, config), run by a process whose working
\* directory is cwd: WalkDir::new(&dir) resolves a relative dir against cwd,
\* entry.unwrap() panics on an entry that cannot be read (a missing start
\* included), strip_prefix(&dir) leaves the path relative to dir
walk_dir(f, cwd, dir, parent_dir, config) ==
    LET globs == get_globsets(f, parent_dir, config)
        base == Join(cwd, dir)
        found == Entries(f, base)
        files == SelectSeq(found, LAMBDA q : Node(f, q).k # "dir")
        rel == [i \in 1..Len(files) |-> Rest(files[i], base)]
    IN
    IF Stat(f, Join(parent_dir, dir)).k = "file"
    THEN IF is_match(globs.include, dir) /\ ~is_match(globs.exclude, dir)
         THEN WalkOk(<<dir>>)
         ELSE WalkOk(<<>>)
    ELSE IF found = <<>> \/ \E i \in 1..Len(found) : Node(f, found[i]) = Locked
    THEN WalkPanic
    ELSE WalkOk(SelectSeq(rel, LAMBDA e :
                    is_match(globs.include, e) /\ ~is_match(globs.exclude, e)))

----------------------------------------------------------------------------
(* The walks: a home tree as the tests of walk_dir build it, and one call  *)
(* of walk_dir with parent_dir the home root.                              *)

\* the files of test_walk_dir, test_walk_dir_subdir and test_walk_dir_file
Files13 ==
    { <<"foo">>, <<"bar">>, <<"baz">>, <<"qux", "foo">>, <<"qux", "bar">>,
      <<"qux", "baz", "foo">>, <<"qux", "baz", "bar">>, <<"spam", "foo">>, <<"spam", "bar">>,
      <<"spam", "baz", "foo">>, <<"spam", "baz", "bar">> }
Files15 ==
    { <<"qux", "foo">>, <<"qux", "bar", "foo">>, <<"qux", "bar", "bar">>,
      <<"qux", "bar", "baz", "foo">> }
Files16 == { <<"foo">>, <<"bar">> }

\* the configurations of the three tests
Config13 ==
    [include |-> << <<"foo">>, <<"qux">>, <<"spam", "**", "*">> >>,
     exclude |-> << <<"bar">>, <<"qux", "baz", "foo">>, <<"spam", "baz", "**", "*">> >>]
Config15 ==
    [include |-> << <<"qux">> >>,
     exclude |-> << <<"qux", "foo">>, <<"qux", "bar", "foo">> >>]
Config16 ==
    [include |-> << <<"foo">> >>, exclude |-> << <<"bar">> >>]

\* files that may be missing from a tree, directories that may be unreadable
Removable == { <<"foo">>, <<"qux", "foo">> }
Lockable == { <<"qux">>, <<"qux", "baz">>, <<"spam">> }

\* the home tree that holds the given files, directories made as touch makes them
Tree(files, locked) ==
    [q \in {home_dir \o WalkPaths[i] : i \in 1..Len(WalkPaths)} |->
        LET p == Rest(q, home_dir) IN
        IF p \in files THEN File("h")
        ELSE IF \E g \in files : starts_with(g, p)
        THEN IF p \in locked THEN Locked ELSE Dir
        ELSE None]

WalkTrees ==
    {Tree(F \ gone, lk) : F \in {Files13, Files15, Files16},
                          gone \in SUBSET Removable,
                          lk \in {{}} \cup {{d} : d \in Lockable}}

\* patterns tried one at a time besides the configurations of the tests
Patterns ==
    { <<"foo">>, <<"bar">>, <<"qux">>, <<"qux", "baz">>, <<"qux", "baz", "foo">>,
      <<"spam", "**", "*">> }

Configs ==
    {Config13, Config15, Config16}
        \cup {[include |-> <<i>>, exclude |-> <<>>] : i \in Patterns}
        \cup {[include |-> <<i>>, exclude |-> <<e>>] : i \in Patterns, e \in Patterns}

\* where a walk may start: ".", the home root, a directory, a file, relative or absolute
Starts ==
    { <<>>, home_dir, <<"qux">>, home_dir \o <<"qux">>, <<"foo">>, home_dir \o <<"foo">>,
      <<"bar">>, <<"qux", "foo">>, <<"spam">> }

\* the working directory of the process: the home root or somewhere else
Cwds == {home_dir, ext_dir}

\* the walk has been asked for and has not run yet
NotRun == [kind |-> "none", paths |-> <<>>]

WalkInit ==
    /\ fs \in WalkTrees
    /\ call \in {[op |-> "walk_dir", cwd |-> cwd, dir |-> dir, parent_dir |-> home_dir,
                  config |-> cfg, res |-> NotRun] :
                    cwd \in Cwds, dir \in Starts, cfg \in Configs}
    /\ dotbak = NoConfig

WalkDirCall ==
    /\ call.res = NotRun
    /\ fs' = fs
    /\ call' = [call EXCEPT !.res = walk_dir(fs, call.cwd, call.dir, call.parent_dir, call.config)]
    /\ UNCHANGED dotbak

WalkNext == WalkDirCall

WalkSpec == WalkInit /\ [][WalkNext]_vars

----------------------------------------------------------------------------
(* Vocabulary of the properties *)

\* the entry found at home_root/P and at storage_root/P (not followed when a link)
HomeAt(f, P) == LStat(f, home_dir \o P)
RepoAt(f, P) == LStat(f, file_dir \o P)

FullyManaged(f, P) ==
    /\ HomeAt(f, P) = Link(file_dir \o P)
    /\ RepoAt(f, P).k # "none"

Did(op, files) == call.op = op /\ call.files = files

\* the filesystem calls of one kind issued for one path, in order
Tried(trace, op, file) == SelectSeq(trace, LAMBDA e : e.op = op /\ e.file = file)

InBatch(P, files) == \E i \in 1..Len(files) : files[i] = P

OkAt(trace, op, P) ==
    \E i \in 1..Len(trace) : trace[i].op = op /\ trace[i].file = P /\ trace[i].err = "ok"

\* home_root/P is a symbolic link whose target is outside the storage root
Foreign(f, P) == HomeAt(f, P).k = "link" /\ ~starts_with(HomeAt(f, P).t, file_dir)

\* home_root/P is reached through a link: an ancestor of P is itself managed
Aliased(f, P) == Canon(f, home_dir \o P, FALSE, MaxHops) # home_dir \o P

Mutating == {"rename", "remove_file", "symlink"}

----------------------------------------------------------------------------
(* Round trip and basic move *)

C2_Idempotent ==
    \A files \in Batches :
        ( /\ Did("move_and_symlink", files)
          /\ call.prev.op = "move_and_symlink"
          /\ call.prev.res = OkRes )
        => /\ call.res = OkRes
           /\ \A i \in 1..Len(call.trace) : call.trace[i].op \notin Mutating
           /\ fs = call.pre

C4_ForeignLink ==
    \A P \in RelPaths :
        ( /\ Did("move_and_symlink", <<P>>)
          /\ Foreign(call.pre, P)
          /\ RepoAt(call.pre, P).k = "none" )
        => /\ ~is_managed_in_home(call.pre, P)
           /\ call.res = OkRes
           /\ RepoAt(fs, P) = HomeAt(call.pre, P)
           /\ HomeAt(fs, P) = Link(file_dir \o P)

----------------------------------------------------------------------------
(* Paths already in storage *)

C6_OnlyLinks ==
    \A files \in Batches :
        Did("symlink_back_home", files)
        => /\ \A P \in RelPaths : fs[file_dir \o P] = call.pre[file_dir \o P]
           /\ \A P \in RelPaths :
                (InBatch(P, files) /\ call.res = OkRes)
                => IF LinkFilter(call.pre, P)
                   THEN HomeAt(fs, P) = Link(file_dir \o P)
                   ELSE HomeAt(fs, P) = HomeAt(call.pre, P)

\* C7: when the first symlink attempt for a stored path P whose home location
\* is its own (no ancestor is a link) meets an existing entry of any kind at
\* home_root/P, the entry is deleted and the symlink is tried exactly once
\* more; a call that returns Ok leaves home_root/P linked to storage_root/P
\* and the storage entry unchanged; no path gets more than two attempts.
C7_DeleteAndRetry ==
    \A P \in RelPaths :
        LET links == Tried(call.trace, "symlink", P) IN
        /\ Len(links) <= 2
        /\ (links # <<>> /\ links[1].err = "AlreadyExists" /\ ~Aliased(call.pre, P))
            => /\ OkAt(call.trace, "remove_file", P)
               /\ Len(links) = 2
               /\ call.res = OkRes
                    => /\ HomeAt(fs, P) = Link(file_dir \o P)
                       /\ RepoAt(fs, P) = RepoAt(call.pre, P)

----------------------------------------------------------------------------
(* Restoring *)

\* C8: remove_and_restore([P]) when home_root/P does not exist or is not a
\* symbolic link returns a Delete error and changes nothing: the home entry
\* is not deleted and no storage entry is moved.
C8_HardFailure ==
    \A P \in RelPaths :
        (Did("remove_and_restore", <<P>>) /\ HomeAt(call.pre, P).k # "link")
        => /\ call.res = Err("Delete", P)
           /\ fs = call.pre

\* C9: a second remove_and_restore(files) right after a first one that
\* returned Ok leaves the filesystem as the first call left it.
C9_RestoreTwice ==
    \A files \in Batches :
        ( /\ Did("remove_and_restore", files)
          /\ call.prev.op = "remove_and_restore"
          /\ call.prev.res = OkRes )
        => fs = call.pre

----------------------------------------------------------------------------
(* Failure inside a batch *)

\* a symlink attempt that met an existing entry and went on to the delete
Recovered(trace, i) ==
    /\ trace[i].op = "symlink" /\ trace[i].err = "AlreadyExists"
    /\ i < Len(trace)
    /\ trace[i + 1].op = "remove_file" /\ trace[i + 1].file = trace[i].file

\* the filesystem call a trace entry of operation op stands for, applied to f
Apply(f, op, e) ==
    LET src == IF op = "remove_and_restore" THEN file_dir ELSE home_dir
        dst == IF op = "remove_and_restore" THEN home_dir ELSE file_dir
    IN
    CASE e.op = "create_dir_all" -> create_dir_all(f, Parent(dst \o e.file)).f
      [] e.op = "rename" -> rename(f, src \o e.file, dst \o e.file).f
      [] e.op = "remove_file" -> remove_file(f, home_dir \o e.file).f
      [] e.op = "symlink" -> symlink(f, file_dir \o e.file, home_dir \o e.file).f

\* the filesystem after the calls of a trace, in order
RECURSIVE Replay(_, _, _)
Replay(f, op, trace) ==
    IF trace = <<>> THEN f
    ELSE Replay(Apply(f, op, Head(trace)), op, Tail(trace))

\* C10: a call that returns an error returns the error of the first
\* filesystem call that failed for good, for the path it failed on; that
\* call is the last one the engine issues, and the filesystem is left as the
\* calls completed before it made it: nothing is undone.
C10_NotTransactional ==
    call.res.kind # "Ok" =>
        /\ call.trace # <<>>
        /\ Last(call.trace).err # "ok"
        /\ Last(call.trace).file = call.res.file
        /\ \A i \in 1..(Len(call.trace) - 1) :
                call.trace[i].err = "ok" \/ Recovered(call.trace, i)
        /\ fs = Replay(call.pre, call.op, call.trace)

\* c was moved to storage, then the move of a failed: c stays moved, unlinked
C10_Witness ==
    /\ Did("move_and_symlink", <<C, A>>)
    /\ call.res = Err("Move", A)
    /\ OkAt(call.trace, "rename", C)
    /\ HomeAt(call.pre, C) = File("h")
    /\ RepoAt(fs, C) = File("h")
    /\ HomeAt(fs, C).k = "none"
    /\ fs # call.pre

----------------------------------------------------------------------------
(* Fatal failure of the link step *)

\* the position of a path in a batch (0 when it is not in it)
IndexOf(P, files) ==
    IF InBatch(P, files) THEN CHOOSE i \in 1..Len(files) : files[i] = P ELSE 0

\* the call failed in the link step: a Symlink error, or the Delete error of
\* the collision branch
LinkStepFailed ==
    /\ call.op \in {"symlink_back_home", "move_and_symlink"}
    /\ call.res.kind \in {"Symlink", "Delete"}

\* C11 (as stated): when the link step fails fatally for one path of a
\* batch, the sibling paths of the batch that are stored and not home-linked
\* are still linked.
C11_SiblingsLinked ==
    \A files \in Batches : \A P \in RelPaths :
        ( /\ Did("symlink_back_home", files)
          /\ LinkStepFailed
          /\ InBatch(P, files)
          /\ P # call.res.file
          /\ LinkFilter(call.pre, P) )
        => HomeAt(fs, P) = Link(file_dir \o P)

\* C11 (amended): when the link step fails fatally for one path of a batch,
\* the call returns that error at once: the failed filesystem call for that
\* path is the last one issued, and no link is attempted for any path that
\* comes after the failing one in the batch.
C11_StopsAtFatal ==
    LinkStepFailed =>
        /\ InBatch(call.res.file, call.files)
        /\ Last(call.trace).file = call.res.file
        /\ Last(call.trace).op \in {"symlink", "remove_file"}
        /\ \A P \in RelPaths :
              IndexOf(P, call.files) > IndexOf(call.res.file, call.files)
                  => Tried(call.trace, "symlink", P) = <<>>

\* a is a directory left at home, c is stored and unlinked: the delete of a
\* fails and c, which comes after it, is never linked
C11_Witness ==
    /\ Did("symlink_back_home", <<A, C>>)
    /\ call.res = Err("Delete", A)
    /\ LinkFilter(call.pre, C)
    /\ HomeAt(call.pre, C).k = "none"
    /\ HomeAt(fs, C).k = "none"
    /\ Tried(call.trace, "symlink", C) = <<>>

----------------------------------------------------------------------------
(* The walker *)

Range(seq) == {seq[i] : i \in 1..Len(seq)}

Walked == call.op = "walk_dir" /\ call.res # NotRun

\* the matchers of the walk, compiled against the tree that is walked
Globs == get_globsets(fs, call.parent_dir, call.config)

\* the walk is asked to start at the home root
AtHomeRoot == call.dir \in {<<>>, home_dir}

\* the regular files of the home tree, as paths relative to the home root
HomeFiles == {p \in Range(WalkPaths) : Node(fs, home_dir \o p).k = "file"}

\* C12: every path p returned by walk_dir satisfies include.matches(p) and
\* not exclude.matches(p): a path matched by both an include pattern and an
\* exclude pattern is never returned.
C12_ExcludePrecedence ==
    (Walked /\ call.res.kind = "Ok") =>
        \A p \in Range(call.res.paths) :
            is_match(Globs.include, p) /\ ~is_match(Globs.exclude, p)

\* spam/baz/foo is matched by spam/**/* and by spam/baz/**/*: it is left out
\* of a walk that returns other files
C12_Witness ==
    /\ Walked
    /\ call.config = Config13
    /\ call.res.kind = "Ok"
    /\ <<"spam", "foo">> \in Range(call.res.paths)
    /\ <<"spam", "baz", "foo">> \in HomeFiles
    /\ is_match(Globs.include, <<"spam", "baz", "foo">>)
    /\ is_match(Globs.exclude, <<"spam", "baz", "foo">>)
    /\ <<"spam", "baz", "foo">> \notin Range(call.res.paths)

Expected13 ==
    { <<"foo">>, <<"qux", "foo">>, <<"qux", "bar">>, <<"qux", "baz", "bar">>,
      <<"spam", "foo">>, <<"spam", "bar">> }

\* C13: with the include and exclude lists and the home tree of the
\* scenario, walking the home root returns exactly foo, qux/foo, qux/bar,
\* qux/baz/bar, spam/foo and spam/bar.
C13_Scenario ==
    ( /\ Walked
      /\ fs = Tree(Files13, {})
      /\ call.config = Config13
      /\ AtHomeRoot )
    => /\ call.res.kind = "Ok"
       /\ Range(call.res.paths) = Expected13

\* C14: an include pattern that is the path of a directory under the home
\* root makes a walk of the home root return every regular file at any depth
\* under that directory that is not excluded, and the walk returns no
\* directory.
C14_DirectoryExpansion ==
    \A d \in Range(call.config.include) :
        ( /\ Walked
          /\ AtHomeRoot
          /\ call.res.kind = "Ok"
          /\ Stat(fs, home_dir \o d).k = "dir" )
        => /\ \A p \in HomeFiles :
                (starts_with(p, d) /\ ~is_match(Globs.exclude, p))
                    => p \in Range(call.res.paths)
           /\ \A p \in Range(call.res.paths) : Node(fs, home_dir \o p).k # "dir"

Expected15 == { <<"qux", "bar", "bar">>, <<"qux", "bar", "baz", "foo">> }

\* C15: walk_dir started at the directory qux, with include = [qux],
\* exclude = [qux/foo, qux/bar/foo] and the files qux/foo, qux/bar/foo,
\* qux/bar/bar, qux/bar/baz/foo, tests each descendant by its path relative
\* to the home root and returns exactly qux/bar/bar and qux/bar/baz/foo.
C15_Subdirectory ==
    ( /\ Walked
      /\ fs = Tree(Files15, {})
      /\ call.config = Config15
      /\ call.dir \in {<<"qux">>, home_dir \o <<"qux">>} )
    => /\ call.res.kind = "Ok"
       /\ Range(call.res.paths) = Expected15

\* C16: when the start of the walk names an existing regular file under the
\* home root, walk_dir returns exactly that one path if it matches include
\* and not exclude, and the empty sequence otherwise.
C16_FileStart ==
    ( /\ Walked
      /\ Stat(fs, Join(call.parent_dir, call.dir)).k = "file" )
    => call.res =
          IF is_match(Globs.include, call.dir) /\ ~is_match(Globs.exclude, call.dir)
          THEN WalkOk(<<call.dir>>)
          ELSE WalkOk(<<>>)

\* the walk of test_walk_dir_file: foo is a file, included and not excluded
C16_Witness ==
    /\ Walked
    /\ call.dir = <<"foo">>
    /\ call.config = Config16
    /\ Node(fs, home_dir \o <<"foo">>) = File("h")
    /\ call.res = WalkOk(<< <<"foo">> >>)

\* the walk meets a directory whose entries cannot be read
MeetsUnreadable ==
    /\ Stat(fs, Join(call.parent_dir, call.dir)).k # "file"
    /\ \E q \in Range(Entries(fs, Join(call.cwd, call.dir))) : Node(fs, q) = Locked

\* C17: an error while reading a directory entry makes the whole walk fail
\* with an error result (TraversalError) returned to the caller; no partial
\* list of paths is returned.
C17_TraversalError ==
    (Walked /\ MeetsUnreadable) =>
        /\ call.res.kind = "TraversalError"
        /\ call.res.paths = <<>>

----------------------------------------------------------------------------
(* The classifier *)

\* C18: is_managed_in_home(P) returns true if and only if home_root/P
\* exists, is a symbolic link and its target falls under the storage root;
\* it returns false when the entry is missing or is not a symbolic link.
\* Neither is_managed_in_home nor is_managed_in_repo changes anything under
\* either root.
C18_Classifier ==
    \A P \in RelPaths :
        /\ (call.op = "is_managed_in_home" /\ call.files = <<P>>)
            => /\ call.res \in BOOLEAN
               /\ call.res = TRUE <=>
                    ( /\ HomeAt(call.pre, P).k = "link"
                      /\ starts_with(HomeAt(call.pre, P).t, file_dir) )
               /\ HomeAt(call.pre, P).k \in {"none", "file", "dir"} => call.res = FALSE
               /\ fs = call.pre
        /\ (call.op = "is_managed_in_repo" /\ call.files = <<P>>)
            => /\ call.res \in BOOLEAN
               /\ fs = call.pre

\* home_root/c is a link to storage_root/a: under the storage root, so managed
C18_Witness ==
    /\ call.op = "is_managed_in_home"
    /\ call.files = <<C>>
    /\ HomeAt(fs, C) = Link(file_dir \o A)
    /\ call.res = TRUE

----------------------------------------------------------------------------
(* The mirrored location of a nested path *)

----------------------------------------------------------------------------
(* Adding a directory *)

\* C20: add([D]) where home_root/D is a directory that contains files
\* returns Ok when D is not in storage yet, and after an add([D]) that
\* returned Ok home_root/D is a symbolic link whose target is
\* storage_root/D, storage_root/D is a directory with every contained file
\* at the same relative path, and D is in the include list of the
\* configuration, in memory and as saved.
C20_AddDirectory ==
    ( /\ Did("add", <<A>>)
      /\ HomeAt(call.pre, A).k = "dir"
      /\ HomeAt(call.pre, AB).k = "file" )
    => /\ RepoAt(call.pre, A).k = "none" => call.res = OkRes
       /\ call.res = OkRes =>
            /\ HomeAt(fs, A) = Link(file_dir \o A)
            /\ RepoAt(fs, A).k = "dir"
            /\ RepoAt(fs, AB) = HomeAt(call.pre, AB)
            /\ InBatch(A, dotbak.include)
            /\ InBatch(A, dotbak.saved)

\* the directory a with the file a/b in it was added: one rename moved both
C20_Witness ==
    /\ Did("add", <<A>>)
    /\ HomeAt(call.pre, A) = Dir
    /\ HomeAt(call.pre, AB) = File("h")
    /\ OkAt(call.trace, "rename", A)
    /\ Tried(call.trace, "rename", AB) = <<>>
    /\ HomeAt(fs, A) = Link(file_dir \o A)
    /\ fs[file_dir \o AB] = File("h")
    /\ dotbak.include = <<A>>

----------------------------------------------------------------------------
(* Deinitialising *)

\* the calls of remove_and_restore on the include list, from where deinit started
Restoring == remove_and_restore(Start(call.pre), call.before.include)

----------------------------------------------------------------------------
(* Synchronising *)

Real(n) == n.k \in {"file", "dir"}

\* C22: after sync_files(files) returns Ok, every path of files that had an
\* entry under the home root or under the storage root beforehand is fully
\* managed; for a path that had real entries at both locations, the storage
\* content is the one kept and the home entry is a symlink to it.
C22_SyncTarget ==
    \A files \in Batches : \A P \in RelPaths :
        ( /\ Did("sync_files", files)
          /\ call.res = OkRes
          /\ InBatch(P, files) )
        => /\ (HomeAt(call.pre, P).k # "none" \/ RepoAt(call.pre, P).k # "none")
                => FullyManaged(fs, P)
           /\ (Real(HomeAt(call.pre, P)) /\ Real(RepoAt(call.pre, P)))
                => /\ RepoAt(fs, P) = RepoAt(call.pre, P)
                   /\ HomeAt(fs, P) = Link(file_dir \o P)

----------------------------------------------------------------------------
(* Committing and the configuration *)

\* what the engine call of the last add or remove returned
Engine ==
    IF call.op = "add" THEN sync_files(Start(call.pre), call.files)
    ELSE remove_and_restore(Start(call.pre), call.files)

\* C23: in add and in remove the commit is issued only after the engine call
\* has returned Ok; when the engine call fails no commit is made and the
\* caller receives the engine's error.
C23_CommitAfter ==
    call.op \in {"add", "remove"} =>
        /\ call.commit # <<>> => Engine.res = OkRes
        /\ Engine.res = OkRes =>
              /\ call.res = OkRes
              /\ call.commit = <<IF call.op = "add" THEN "Add files" ELSE "Remove files", call.files>>
              /\ fs = Engine.f
        /\ Engine.res # OkRes =>
              /\ call.commit = <<>>
              /\ call.res = Engine.res

\* c was added and committed, then remove([c, a]) failed on a, which was
\* never managed: the Delete error came back and nothing was committed
C23_Witness ==
    /\ Did("remove", <<C, A>>)
    /\ InBatch(C, call.before.include)
    /\ FullyManaged(call.pre, C)
    /\ call.res = Err("Delete", A)
    /\ call.commit = <<>>

----------------------------------------------------------------------------
(* Content *)

\* the content of P is a real entry at home_root/P or at storage_root/P
Kept(f, P, n) == HomeAt(f, P) = n \/ RepoAt(f, P) = n

\* C24: starting from a state where the content of P is a real entry under
\* the home root only, a move_and_symlink, symlink_back_home or
\* remove_and_restore call naming P, whether it succeeds or fails, leaves
\* the content of P as a real entry at home_root/P or at storage_root/P.
C24_NoContentLoss ==
    \A P \in RelPaths :
        ( /\ call.op \in {"move_and_symlink", "symlink_back_home", "remove_and_restore"}
          /\ InBatch(P, call.files)
          /\ Real(HomeAt(call.pre, P))
          /\ RepoAt(call.pre, P).k = "none" )
        => Kept(fs, P, HomeAt(call.pre, P))

----------------------------------------------------------------------------
(* Managed links *)

\* C25: in every state reached from a filesystem without symbolic links by
\* move_and_symlink, symlink_back_home and remove_and_restore calls,
\* whenever is_managed_in_home(P) holds the link at home_root/P targets
\* exactly storage_root/P and does not dangle: an entry exists at
\* storage_root/P.
C25_ExactLinks ==
    \A P \in RelPaths :
        is_managed_in_home(fs, P)
        => /\ HomeAt(fs, P) = Link(file_dir \o P)
           /\ is_managed_in_repo(fs, P)

----------------------------------------------------------------------------
(* Phases of a batch *)

MovePhase == {"create_dir_all", "rename"}
LinkPhase == {"symlink", "remove_file"}

\* C26: inside move_and_symlink all moves of the batch are performed before
\* any symlink is created; when the move of a path fails, the paths moved
\* before it are left in storage with no entry at their home location, and
\* no symlink has been created for any path.
C26_MovesThenLinks ==
    call.op = "move_and_symlink" =>
        /\ \A i, j \in 1..Len(call.trace) :
              (call.trace[i].op \in MovePhase /\ call.trace[j].op \in LinkPhase) => i < j
        /\ call.res.kind \in {"Move", "Create"} =>
              /\ \A i \in 1..Len(call.trace) : call.trace[i].op \in MovePhase
              /\ \A P \in RelPaths : HomeAt(fs, P).k = "link" => HomeAt(call.pre, P) = HomeAt(fs, P)
              /\ \A P \in RelPaths :
                    ( /\ InBatch(P, call.files)
                      /\ IndexOf(P, call.files) < IndexOf(call.res.file, call.files)
                      /\ MoveFilter(call.pre, P) )
                    => /\ OkAt(call.trace, "rename", P)
                       /\ RepoAt(fs, P) = HomeAt(call.pre, P)
                       /\ HomeAt(fs, P).k = "none"

\* c was moved, then the move of a/b failed: c is in storage, unlinked
C26_Witness ==
    /\ Did("move_and_symlink", <<C, AB>>)
    /\ call.res = Err("Move", AB)
    /\ HomeAt(call.pre, C) = File("h")
    /\ OkAt(call.trace, "rename", C)
    /\ RepoAt(fs, C) = File("h")
    /\ HomeAt(fs, C).k = "none"
    /\ Tried(call.trace, "symlink", C) = <<>>

----------------------------------------------------------------------------
(* Recovery *)

\* P is moved but not linked: an entry at storage_root/P, nothing at home_root/P
MovedNotLinked(f, P) == RepoAt(f, P).k # "none" /\ HomeAt(f, P).k = "none"

\* the storage tree is what it was before the call
StorageUntouched == \A Q \in RelPaths : fs[file_dir \o Q] = call.pre[file_dir \o Q]

\* C27: when P is moved but not yet linked, one sync_files([P]) returns Ok
\* and makes P fully managed without moving or altering the storage entry.
C27_Recovery ==
    \A P \in RelPaths :
        (Did("sync_files", <<P>>) /\ MovedNotLinked(call.pre, P))
        => /\ call.res = OkRes
           /\ FullyManaged(fs, P)
           /\ Tried(call.trace, "rename", P) = <<>>
           /\ StorageUntouched

\* C28: inside remove_and_restore the home entries of all paths of the batch
\* are deleted before any storage entry is moved back; when the call fails
\* while restoring a path, every later path of the batch has no home entry
\* and its storage entry is what it was.
C28_DeletesThenRestores ==
    call.op = "remove_and_restore" =>
        /\ \A i, j \in 1..Len(call.trace) :
              (call.trace[i].op = "remove_file" /\ call.trace[j].op \in MovePhase) => i < j
        /\ call.res.kind \in {"Move", "Create"} =>
              \A P \in RelPaths :
                  ( /\ InBatch(P, call.files)
                    /\ IndexOf(P, call.files) > IndexOf(call.res.file, call.files) )
                  => /\ HomeAt(fs, P).k = "none"
                     /\ RepoAt(fs, P) = RepoAt(call.pre, P)

----------------------------------------------------------------------------
(* A failed move *)

\* C29: when move_and_symlink([P]) fails because P has no entry under the
\* home root (and none in storage), it returns a Move error naming P and
\* leaves both roots exactly as they were: no directory is created under
\* the storage root.
C29_FailedMoveFrame ==
    \A P \in RelPaths :
        ( /\ Did("move_and_symlink", <<P>>)
          /\ HomeAt(call.pre, P).k = "none"
          /\ RepoAt(call.pre, P).k = "none"
          /\ Last(call.trace).op = "rename" )
        => /\ call.res = Err("Move", P)
           /\ fs = call.pre

\* C30: when the engine call inside add or remove fails, the include list of
\* the configuration, in memory and as saved on disk, is what it was before
\* the call: it never names a path the engine failed to manage.
C30_ConfigOnFailure ==
    (call.op \in {"add", "remove"} /\ call.res # OkRes)
    => /\ dotbak.include = call.before.include
       /\ dotbak.saved = call.before.saved

====
